---- MODULE Spec2Model ----
(***************************************************************************)
(* A model of the remat-data command line client                           *)
(* (src/src/remat_data/dataset.py, src/src/remat_data/config.py).          *)
(*                                                                         *)
(* The client is single threaded: one command runs per process, every     *)
(* network call completes (or raises) before the next statement.  The      *)
(* remote service and the mimetypes database are the environment: every    *)
(* response is drawn from a small set when the call is made.               *)
(*                                                                         *)
(* Two specifications share the module.  UploadSpec is one run of          *)
(* `spaces upload`; DownloadSpec is any sequence of `datasets download`    *)
(* and `spaces download` runs over one working directory.  The two         *)
(* commands share no state, so they are checked apart.                     *)
(***************************************************************************)
EXTENDS Integers, Sequences, FiniteSets, TLC

\* ------------------------------------------------------------------ bounds
MaxFiles == 2        \* longest file list given to `spaces upload`
MaxListing == 2      \* longest dataset listing the remote returns for a space
MaxRemoteFiles == 2  \* longest file listing the remote returns for a dataset

\* --------------------------------------------------------------- char strings
\* File names are sequences of characters, so that lower(), endswith() and
\* the extension split are computed and not looked up.
A_CSV     == <<"a", ".", "c", "s", "v">>
VIDEO_MP4 == <<"v", "i", "d", "e", "o", ".", "m", "p", "4">>
CLIP_MP4U == <<"C", ".", "M", "P", "4">>
README    == <<"R", "E", "A", "D">>
EXT_CSV   == <<".", "c", "s", "v">>
EXT_MP4   == <<".", "m", "p", "4">>

FileNames == {A_CSV, VIDEO_MP4, CLIP_MP4U, README}

LowerChar(c) ==
    CASE c = "A" -> "a" [] c = "C" -> "c" [] c = "D" -> "d" [] c = "E" -> "e"
      [] c = "M" -> "m" [] c = "P" -> "p" [] c = "R" -> "r" [] c = "V" -> "v"
      [] OTHER -> c

\* str.lower()
Lower(s) == [i \in 1..Len(s) |-> LowerChar(s[i])]

\* str.endswith(suffix)
EndsWith(s, suffix) ==
    /\ Len(suffix) <= Len(s)
    /\ SubSeq(s, Len(s) - Len(suffix) + 1, Len(s)) = suffix

\* posixpath.splitext(name)[1]: from the last dot on, unless that dot leads
\* the name; the empty string when there is none.
SplitExt(s) ==
    LET dots == {i \in 2..Len(s) : s[i] = "."}
    IN  IF dots = {} THEN <<>>
        ELSE LET last == CHOOSE i \in dots : \A j \in dots : j <= i
             IN  SubSeq(s, last, Len(s))

\* ------------------------------------------------------------ configuration
config ==
    [default_new_dataset_name |-> "Default Dataset",
     clowder_base_url |-> "https://re-mat.clowder.ncsa.illinois.edu",
     dataset_path |-> "datasets"]

SpaceNameOrder ==
    <<"DSC Cure Kinetics", "DSC Post Cures", "Front velocities", "Test">>

SpaceNames == {SpaceNameOrder[i] : i \in 1..Len(SpaceNameOrder)}

space_map ==
    [n \in SpaceNames |->
        CASE n = "DSC Cure Kinetics" -> "6810f088e4b00420021cff64"
          [] n = "DSC Post Cures"    -> "6669d4d0e4b0a2d1b9b9a797"
          [] n = "Front velocities"  -> "6674972be4b0a2d1b9ba0228"
          [] n = "Test"              -> "67edd4e8e4b00fd657cdd863"]

\* ------------------------------------------------------------------ state
VARIABLES
    \* --- the mimetypes database of the interpreter (environment)
    types_map,
    \* --- spaces upload
    upc,            \* position of upload_file
    flags,          \* the four space flags
    dataset_name,   \* --name, "None" when absent
    file_names,     \* the file arguments
    space_name, space_id,
    resp,           \* what clowder.post("/datasets/createempty") returned
    dataset_id, dataset_url,
    fi,             \* index of the file the loop is at
    calls,          \* network calls issued, in order
    attempts,       \* per file attempted: route, MIME type and outcome
    console,        \* console.print lines
    exit_code,      \* exit status once upc is terminal
    \* --- datasets download / spaces download
    fs,             \* working directory: per dataset id, its directory
    dpc,            \* position of the running download command
    cmd,            \* "dataset" or "space": the command the process runs
    cur,            \* dataset_id of the running download_dataset call
    datasets,       \* listing returned for the space
    to_download, ti,
    metadata,       \* response of the metadata endpoint
    files,          \* response of the files endpoint
    net,            \* network calls issued by the running command
    status,         \* how the last command ended
    dl_space,       \* space_id of the running download_space
    last_ok,        \* space and listing of the last `spaces download` that returned
    rerun           \* the running `spaces download` repeats last_ok

upload_vars ==
    <<types_map, upc, flags, dataset_name, file_names, space_name, space_id,
      resp, dataset_id, dataset_url, fi, calls, attempts, console, exit_code>>

download_vars ==
    <<fs, dpc, cmd, cur, dl_space, datasets, to_download, ti, metadata, files,
      net, status, last_ok, rerun>>

vars == <<upload_vars, download_vars>>


\* ------------------------------------------------------------ environment
\* Two databases mimetypes can hold: CPython's table, and one without an
\* entry for .mp4 (the case line 38 of dataset.py provides for).
TypesWithMp4 ==
    [e \in {EXT_CSV, EXT_MP4} |-> IF e = EXT_CSV THEN "text/csv" ELSE "video/mp4"]

TypesWithoutMp4 == [e \in {EXT_CSV} |-> "text/csv"]

TypesMaps == {TypesWithMp4, TypesWithoutMp4}

\* mimetypes.guess_type(name)[0]: the extension as written, then lower-cased.
guess_type(name) ==
    LET ext == SplitExt(name)
    IN  IF ext \in DOMAIN types_map THEN types_map[ext]
        ELSE IF Lower(ext) \in DOMAIN types_map THEN types_map[Lower(ext)]
        ELSE "None"

\* The MIME type _upload_file_with_mimetype sends.
upload_mime_type(file_path) ==
    LET g == guess_type(file_path)
        guessed_mime_type ==
            IF g = "None" /\ EndsWith(Lower(file_path), EXT_MP4)
            THEN "video/mp4" ELSE g
    IN  IF guessed_mime_type # "None" THEN guessed_mime_type
        ELSE "application/octet-stream"

\* ------------------------------------------------------------ spaces upload
FlagSets == [cure : BOOLEAN, post_cure : BOOLEAN,
             front_velocity : BOOLEAN, test : BOOLEAN]

NoFlags == [cure |-> FALSE, post_cure |-> FALSE,
            front_velocity |-> FALSE, test |-> FALSE]

DatasetNameArgs == {"None", "Run7"}

FileLists == UNION {[1..n -> FileNames] : n \in 0..MaxFiles}

\* The space_names dictionary of upload_file.
space_names(f) ==
    [n \in SpaceNames |->
        CASE n = "DSC Cure Kinetics" -> f.cure
          [] n = "DSC Post Cures"    -> f.post_cure
          [] n = "Front velocities"  -> f.front_velocity
          [] n = "Test"              -> f.test]

\* sum(space_names.values())
FlagCount(f) == Cardinality({n \in SpaceNames : space_names(f)[n]})

AtLeastOneSpace(f) == FlagCount(f) >= 1

\* the check of line 200, as the condition to go on
ExactlyOneSpace(f) == FlagCount(f) = 1

\* next((name for name, value in space_names.items() if value), None)
FirstSpaceName(f) ==
    LET set == {i \in 1..Len(SpaceNameOrder) : space_names(f)[SpaceNameOrder[i]]}
    IN  IF set = {} THEN "None"
        ELSE SpaceNameOrder[CHOOSE i \in set : \A j \in set : i <= j]

\* Responses of clowder.post("/datasets/createempty"): None, an empty
\* object, the record of the created dataset, or an exception.
CreatedIds == {"ds-64a1", "ds-64b2"}

CreateResponses ==
    {[kind |-> "None", id |-> ""], [kind |-> "empty", id |-> ""],
     [kind |-> "raise", id |-> ""]}
    \cup {[kind |-> "dataset", id |-> d] : d \in CreatedIds}

NoResp == [kind |-> "none yet", id |-> ""]

CreateFailedOnlyNone(r) == r.kind = "None"

\* `not resp` of line 223
CreateFailed(r) == r.kind \in {"None", "empty"}

DatasetUrlWithoutSpace(id, space) ==
    <<config.clowder_base_url, "/", config.dataset_path, "/", id,
      "?space=", "">>

\* the f-string of line 227
DatasetUrl(id, space) ==
    <<config.clowder_base_url, "/", config.dataset_path, "/", id,
      "?space=", space>>

NoUrl == <<>>

Call(call, path, id, file, mime, name, space) ==
    [call |-> call, path |-> path, id |-> id, file |-> file, mime |-> mime,
     name |-> name, space |-> space]

Line(text, arg) == [text |-> text, arg |-> arg]

MsgOneSpace   == "Error: You must specify exactly one space."
MsgNoFiles    == "Error: You must specify at least one file to upload."
MsgUploading  == "Uploading to Space"
MsgCreateFail == "Upload Failed: Failed to create a new dataset"
MsgWithMime   == "Uploading with MIME type"
MsgFileError  == "Error uploading file"
MsgUploaded   == "Uploaded Files to newly created dataset"

\* upload_file, lines 191-212: validation and resolution of the space.
UploadStart ==
    /\ upc = "idle"
    /\ \E f \in FlagSets, n \in DatasetNameArgs, fl \in FileLists :
        /\ flags' = f
        /\ file_names' = fl
        /\ IF ~ExactlyOneSpace(f)
           THEN /\ console' = Append(console, Line(MsgOneSpace, <<>>))
                /\ exit_code' = 1
                /\ upc' = "exited"
                /\ dataset_name' = n
                /\ UNCHANGED <<space_name, space_id>>
           ELSE IF Len(fl) = 0
           THEN /\ console' = Append(console, Line(MsgNoFiles, <<>>))
                /\ exit_code' = 1
                /\ upc' = "exited"
                /\ dataset_name' = n
                /\ UNCHANGED <<space_name, space_id>>
           ELSE /\ space_name' = FirstSpaceName(f)
                /\ dataset_name' =
                       IF n \notin {"None", ""} THEN n
                       ELSE config.default_new_dataset_name
                /\ space_id' = space_map[space_name']
                /\ console' = Append(console,
                       Line(MsgUploading, <<space_name', space_id'>>))
                /\ upc' = "create"
                /\ UNCHANGED exit_code
    /\ UNCHANGED <<types_map, resp, dataset_id, dataset_url, fi, calls, attempts>>
    /\ UNCHANGED download_vars

\* upload_file, lines 214-227: STEP 1, the empty dataset.
UploadCreate ==
    /\ upc = "create"
    /\ \E r \in CreateResponses :
        /\ resp' = r
        /\ calls' = Append(calls,
               Call("POST", "/datasets/createempty", "", <<>>, "None",
                    dataset_name, space_id))
        /\ IF r.kind = "raise"
           THEN /\ upc' = "fatal"
                /\ exit_code' = 1
                /\ UNCHANGED <<console, dataset_id, dataset_url, fi>>
           ELSE IF CreateFailed(r)
           THEN /\ console' = Append(console, Line(MsgCreateFail, <<>>))
                /\ upc' = "returned"
                /\ exit_code' = 0
                /\ UNCHANGED <<dataset_id, dataset_url, fi>>
           ELSE /\ dataset_id' = r.id
                /\ dataset_url' = DatasetUrl(r.id, space_id)
                /\ fi' = 1
                /\ upc' = "loop"
                /\ UNCHANGED <<console, exit_code>>
    /\ UNCHANGED <<types_map, flags, dataset_name, file_names, space_name,
                   space_id, attempts>>
    /\ UNCHANGED download_vars

Attempt(file, route, mime, outcome) ==
    [file |-> file, route |-> route, mime |-> mime, outcome |-> outcome]

BreakOnFailure(i, outcome) ==
    IF outcome = "falsy" THEN Len(file_names) + 1 ELSE i + 1

\* the for loop of line 230 moves to the next file whatever was returned
NextFileIndex(i, outcome) == i + 1

\* upload_file, lines 230-239: one turn of the STEP 2 loop.  "ok" and "falsy"
\* are return values; "open_error" (the file cannot be opened, line 42) and
\* "raise" (the request raises) are exceptions, which nothing catches.
UploadStep ==
    /\ upc = "loop"
    /\ fi <= Len(file_names)
    /\ LET file_name == file_names[fi]
           mime_type == guess_type(file_name)
       IN  IF mime_type = "video/mp4"
           THEN \E outcome \in {"ok", "falsy", "open_error", "raise"} :
                LET mime == upload_mime_type(file_name) IN
                /\ attempts' = Append(attempts,
                       Attempt(file_name, "multipart", mime, outcome))
                /\ calls' = IF outcome = "open_error" THEN calls
                            ELSE Append(calls,
                                   Call("POST_MULTIPART", "/api/uploadToDataset/",
                                        dataset_id, file_name, mime, "", ""))
                /\ console' =
                       LET c == Append(console, Line(MsgWithMime, <<file_name, mime>>))
                       IN  IF outcome = "falsy"
                           THEN Append(c, Line(MsgFileError, file_name)) ELSE c
                /\ IF outcome \in {"open_error", "raise"}
                   THEN upc' = "fatal" /\ exit_code' = 1 /\ UNCHANGED fi
                   ELSE /\ fi' = NextFileIndex(fi, outcome)
                        /\ UNCHANGED <<upc, exit_code>>
           ELSE \E outcome \in {"ok", "falsy", "raise"} :
                /\ attempts' = Append(attempts,
                       Attempt(file_name, "post_file", "None", outcome))
                /\ calls' = Append(calls,
                       Call("POST_FILE", "/uploadToDataset/", dataset_id,
                            file_name, "None", "", ""))
                /\ console' =
                       IF outcome = "falsy"
                       THEN Append(console, Line(MsgFileError, file_name))
                       ELSE console
                /\ IF outcome = "raise"
                   THEN upc' = "fatal" /\ exit_code' = 1 /\ UNCHANGED fi
                   ELSE /\ fi' = NextFileIndex(fi, outcome)
                        /\ UNCHANGED <<upc, exit_code>>
    /\ UNCHANGED <<types_map, flags, dataset_name, file_names, space_name,
                   space_id, resp, dataset_id, dataset_url>>
    /\ UNCHANGED download_vars

\* upload_file, line 241: the loop is over, the URL is printed.
UploadFinish ==
    /\ upc = "loop"
    /\ fi > Len(file_names)
    /\ console' = Append(console, Line(MsgUploaded, dataset_url))
    /\ upc' = "done"
    /\ exit_code' = 0
    /\ UNCHANGED <<types_map, flags, dataset_name, file_names, space_name,
                   space_id, resp, dataset_id, dataset_url, fi, calls, attempts>>
    /\ UNCHANGED download_vars

\* ------------------------------------------------- datasets / spaces download
DatasetIds == {"d1", "d2"}

SpaceIds == {"s1", "s2"}

\* JSON documents the metadata endpoint can return
MetaDocs == {"{}", "[{\"content\": 1}]"}

\* json.dump(obj, fp, indent=4): the text written
json_dump(obj, indent) == [doc |-> obj, indent |-> indent]

\* json.load of a text written by json_dump
json_load(text) == text.doc

NoText == [doc |-> "", indent |-> 0]

\* A directory of the working directory, named by a dataset id.
NoDir == [is_dir |-> FALSE, names |-> {}, metadata_json |-> NoText, dsc_csv |-> ""]

EmptyDir == [is_dir |-> TRUE, names |-> {}, metadata_json |-> NoText, dsc_csv |-> ""]

\* Path(id).is_dir()
is_dir(id) == fs[id].is_dir

\* Listings of /spaces/{id}/datasets: records reduced to their "id"; the
\* remote may list an id more than once.
Listings == UNION {[1..n -> DatasetIds] : n \in 0..MaxListing}

\* Records of /datasets/{id}/files
RemoteFiles ==
    {[filename |-> "DSC_Curve.csv", id |-> "f1"],
     [filename |-> "dsc_curve.csv", id |-> "f2"]}

FileListings == UNION {[1..n -> RemoteFiles] : n \in 0..MaxRemoteFiles}

NoListing == [space |-> "", listing |-> <<>>]

Terminated == dpc \in {"idle", "returned", "fatal"}

KeepAll(listing) == listing

\* download_space, lines 97-101: the records whose directory is missing
NotYetDownloaded(listing) == SelectSeq(listing, LAMBDA id : ~is_dir(id))

IsDscFileAnyCase(file) == file.filename \in {"DSC_Curve.csv", "dsc_curve.csv"}

\* line 138
IsDscFile(file) == file.filename = "DSC_Curve.csv"

\* the list comprehension of lines 135-139
dsc_file(listing) == SelectSeq(listing, IsDscFile)

\* `datasets download <dataset_id>` typed at the shell
DownloadDatasetCmd ==
    /\ Terminated
    /\ \E d \in DatasetIds :
        /\ cmd' = "dataset"
        /\ cur' = d
    /\ dpc' = "mkdir"
    /\ status' = "running"
    /\ net' = <<>>
    /\ datasets' = <<>>
    /\ to_download' = <<>>
    /\ ti' = 1
    /\ metadata' = ""
    /\ files' = <<>>
    /\ rerun' = FALSE
    /\ UNCHANGED <<fs, dl_space, last_ok>>
    /\ UNCHANGED upload_vars

\* `spaces download <space_id>`: lines 96-101, the listing and the filter
DownloadSpaceCmd ==
    /\ Terminated
    /\ cmd' = "space"
    /\ cur' = ""
    /\ metadata' = ""
    /\ files' = <<>>
    /\ ti' = 1
    /\ \E s \in SpaceIds :
        /\ dl_space' = s
        /\ net' = << <<"datasets", s>> >>
        /\ \/ /\ dpc' = "fatal"
              /\ status' = "remote error"
              /\ datasets' = <<>>
              /\ to_download' = <<>>
              /\ rerun' = FALSE
           \/ \E listing \in Listings :
              /\ datasets' = listing
              /\ to_download' = NotYetDownloaded(listing)
              /\ rerun' = (last_ok = [space |-> s, listing |-> listing])
              /\ dpc' = "space_loop"
              /\ status' = "running"
    /\ UNCHANGED <<fs, last_ok>>
    /\ UNCHANGED upload_vars

\* download_space, lines 103-104: the next call of download_dataset, or the
\* return once to_download is exhausted
SpaceLoop ==
    /\ dpc = "space_loop"
    /\ IF ti <= Len(to_download)
       THEN /\ cur' = to_download[ti]
            /\ dpc' = "mkdir"
            /\ UNCHANGED <<status, last_ok>>
       ELSE /\ dpc' = "returned"
            /\ status' = "ok"
            /\ last_ok' = [space |-> dl_space, listing |-> datasets]
            /\ UNCHANGED cur
    /\ UNCHANGED <<fs, cmd, dl_space, datasets, to_download, ti, metadata, files,
                   net, rerun>>
    /\ UNCHANGED upload_vars

MkdirExistOk ==
    /\ dpc = "mkdir"
    /\ fs' = [fs EXCEPT ![cur] = EmptyDir]
    /\ dpc' = "get_metadata"
    /\ UNCHANGED <<cmd, cur, dl_space, datasets, to_download, ti, metadata, files,
                   net, status, last_ok, rerun>>
    /\ UNCHANGED upload_vars

\* download_dataset, lines 129-130: Path(dataset_id).mkdir()
Mkdir ==
    /\ dpc = "mkdir"
    /\ IF is_dir(cur)
       THEN /\ dpc' = "fatal"
            /\ status' = "FileExistsError"
            /\ UNCHANGED fs
       ELSE /\ fs' = [fs EXCEPT ![cur] = EmptyDir]
            /\ dpc' = "get_metadata"
            /\ UNCHANGED status
    /\ UNCHANGED <<cmd, cur, dl_space, datasets, to_download, ti, metadata, files,
                   net, last_ok, rerun>>
    /\ UNCHANGED upload_vars

\* download_dataset, lines 131-133: the metadata, written as metadata.json
GetMetadata ==
    /\ dpc = "get_metadata"
    /\ net' = Append(net, <<"metadata", cur>>)
    /\ \/ /\ dpc' = "fatal"
          /\ status' = "remote error"
          /\ UNCHANGED <<fs, metadata>>
       \/ \E doc \in MetaDocs :
          /\ metadata' = doc
          /\ fs' = [fs EXCEPT ![cur].names = @ \cup {"metadata.json"},
                              ![cur].metadata_json = json_dump(doc, 4)]
          /\ dpc' = "get_files"
          /\ UNCHANGED status
    /\ UNCHANGED <<cmd, cur, dl_space, datasets, to_download, ti, files, last_ok,
                   rerun>>
    /\ UNCHANGED upload_vars

\* download_dataset, lines 135-141: the file listing and its filter
GetFiles ==
    /\ dpc = "get_files"
    /\ net' = Append(net, <<"files", cur>>)
    /\ \/ /\ dpc' = "fatal"
          /\ status' = "remote error"
          /\ UNCHANGED files
       \/ \E listing \in FileListings :
          /\ files' = listing
          /\ dpc' = IF dsc_file(listing) # <<>> THEN "get_file" ELSE "ds_return"
          /\ UNCHANGED status
    /\ UNCHANGED <<fs, cmd, cur, dl_space, datasets, to_download, ti, metadata,
                   last_ok, rerun>>
    /\ UNCHANGED upload_vars

\* download_dataset, lines 142-144: the first matching file, saved as
\* DSC_Curve.csv
GetFile ==
    /\ dpc = "get_file"
    /\ net' = Append(net, <<"file", dsc_file(files)[1].id>>)
    /\ \/ /\ dpc' = "fatal"
          /\ status' = "remote error"
          /\ UNCHANGED fs
       \/ /\ fs' = [fs EXCEPT ![cur].names = @ \cup {"DSC_Curve.csv"},
                              ![cur].dsc_csv = dsc_file(files)[1].id]
          /\ dpc' = "ds_return"
          /\ UNCHANGED status
    /\ UNCHANGED <<cmd, cur, dl_space, datasets, to_download, ti, metadata, files,
                   last_ok, rerun>>
    /\ UNCHANGED upload_vars

\* download_dataset returns: to the loop of download_space, or to the shell
DatasetReturn ==
    /\ dpc = "ds_return"
    /\ IF cmd = "space"
       THEN /\ ti' = ti + 1
            /\ dpc' = "space_loop"
            /\ UNCHANGED status
       ELSE /\ dpc' = "returned"
            /\ status' = "ok"
            /\ UNCHANGED ti
    /\ UNCHANGED <<fs, cmd, cur, dl_space, datasets, to_download, metadata, files,
                   net, last_ok, rerun>>
    /\ UNCHANGED upload_vars

\* ---------------------------------------------------------- specifications
UploadIdle ==
    /\ upc = "idle"
    /\ flags = NoFlags
    /\ dataset_name = "None"
    /\ file_names = <<>>
    /\ space_name = "None"
    /\ space_id = "None"
    /\ resp = NoResp
    /\ dataset_id = "None"
    /\ dataset_url = NoUrl
    /\ fi = 1
    /\ calls = <<>>
    /\ attempts = <<>>
    /\ console = <<>>
    /\ exit_code = 0

\* a working directory without dataset directories
DownloadIdle ==
    /\ fs = [d \in DatasetIds |-> NoDir]
    /\ dpc = "idle"
    /\ cmd = "none"
    /\ cur = ""
    /\ dl_space = ""
    /\ datasets = <<>>
    /\ to_download = <<>>
    /\ ti = 1
    /\ metadata = ""
    /\ files = <<>>
    /\ net = <<>>
    /\ status = "none"
    /\ last_ok = NoListing
    /\ rerun = FALSE

Init ==
    /\ types_map \in TypesMaps
    /\ UploadIdle
    /\ DownloadIdle

DownloadInit ==
    /\ types_map = TypesWithMp4
    /\ UploadIdle
    /\ DownloadIdle

UploadNext ==
    \/ UploadStart
    \/ UploadCreate
    \/ UploadStep
    \/ UploadFinish

DownloadNext ==
    \/ DownloadDatasetCmd
    \/ DownloadSpaceCmd
    \/ SpaceLoop
    \/ Mkdir
    \/ GetMetadata
    \/ GetFiles
    \/ GetFile
    \/ DatasetReturn

UploadSpec == Init /\ [][UploadNext]_vars

DownloadSpec == DownloadInit /\ [][DownloadNext]_vars

\* ------------------------------------------------------ properties: upload
\* the number of space flags given on the command line
FlagsGiven ==
    (IF flags.cure THEN 1 ELSE 0) + (IF flags.post_cure THEN 1 ELSE 0)
    + (IF flags.front_velocity THEN 1 ELSE 0) + (IF flags.test THEN 1 ELSE 0)

IsUploadCall(c) == c.call \in {"POST_FILE", "POST_MULTIPART"}

IsCreateCall(c) == c.call = "POST" /\ c.path = "/datasets/createempty"

LastLine == console[Len(console)]

UrlReported == \E k \in 1..Len(console) : console[k].text = MsgUploaded

\* C1: an upload whose space flags do not number exactly one, or whose file
\* list is empty, exits with status 1 and has issued no network call.
C1_InvalidUploadExitsWithoutNetwork ==
    (upc # "idle" /\ (FlagsGiven # 1 \/ Len(file_names) = 0)) =>
        /\ upc = "exited"
        /\ exit_code # 0
        /\ calls = <<>>

C1_Witness ==
    /\ upc = "exited"
    /\ FlagsGiven = 2
    /\ Len(file_names) = 1
    /\ calls = <<>>

\* C2: every file-upload call is preceded by the dataset-creation call, and
\* the URL printed at the end embeds the id the creation call returned and
\* the registry id of the one space whose flag was given.
C2_CreateBeforeUploadsAndUrl ==
    /\ \A i \in 1..Len(calls) :
         IsUploadCall(calls[i]) => \E j \in 1..(i - 1) : IsCreateCall(calls[j])
    /\ upc = "done" =>
         /\ resp.kind = "dataset"
         /\ LastLine.text = MsgUploaded
         /\ LastLine.arg[5] = resp.id
         /\ \E n \in SpaceNames :
              /\ space_names(flags)[n]
              /\ LastLine.arg[7] = space_map[n]

C2_Witness ==
    /\ upc = "done"
    /\ file_names = <<A_CSV>>
    /\ flags.test
    /\ Len(calls) = 2
    /\ LastLine.arg[5] = "ds-64b2"

\* C3: a file whose name ends in .mp4 goes by the explicit-MIME multipart
\* route with MIME type video/mp4, whatever generic type guessing returns.
C3_Mp4AlwaysMultipart ==
    \A i \in 1..Len(attempts) :
        EndsWith(attempts[i].file, EXT_MP4) =>
            /\ attempts[i].route = "multipart"
            /\ attempts[i].mime = "video/mp4"

\* C6: when the creation call returns an empty or falsy result the command
\* returns at once: one creation call, no file-upload call, the failure
\* message printed, no URL printed.
C6_CreateFailureAborts ==
    resp.kind \in {"None", "empty"} =>
        /\ upc = "returned"
        /\ Len(calls) = 1
        /\ IsCreateCall(calls[1])
        /\ attempts = <<>>
        /\ LastLine.text = MsgCreateFail
        /\ ~UrlReported

C6_Witness ==
    /\ resp.kind = "empty"
    /\ upc = "returned"
    /\ Len(file_names) = 2
    /\ Len(calls) = 1

\* C7: once the dataset exists the files are attempted one by one in input
\* order; a falsy result is reported and the loop goes on; only an exception
\* ends the loop early; the URL is printed when the loop is over, however
\* many files failed.
C7_EveryFileAttemptedInOrder ==
    resp.kind = "dataset" =>
        /\ upc \in {"loop", "done", "fatal"}
        /\ Len(attempts) <= Len(file_names)
        /\ \A i \in 1..Len(attempts) : attempts[i].file = file_names[i]
        /\ \A i \in 1..(Len(attempts) - 1) : attempts[i].outcome \in {"ok", "falsy"}
        /\ \A i \in 1..Len(attempts) :
             attempts[i].outcome = "falsy" =>
                \E k \in 1..Len(console) :
                    /\ console[k].text = MsgFileError
                    /\ console[k].arg = attempts[i].file
        /\ upc = "loop" =>
             /\ Len(attempts) = fi - 1
             /\ \A i \in 1..Len(attempts) : attempts[i].outcome \in {"ok", "falsy"}
        /\ upc = "fatal" =>
             /\ attempts # <<>>
             /\ attempts[Len(attempts)].outcome \in {"open_error", "raise"}
        /\ upc = "done" =>
             /\ Len(attempts) = Len(file_names)
             /\ LastLine = Line(MsgUploaded, dataset_url)

C7_Witness ==
    /\ upc = "done"
    /\ Len(file_names) = 2
    /\ attempts[1].outcome = "falsy"
    /\ attempts[2].outcome = "ok"
    /\ UrlReported

\* ---------------------------------------------------- properties: download
\* C4: when download_dataset has run to its end, the directory of the
\* dataset holds metadata.json with the JSON of the metadata response, and
\* holds DSC_Curve.csv exactly when the files response lists a file named
\* DSC_Curve.csv.
C4_DownloadDatasetWritesMetadataAndCsv ==
    (dpc = "ds_return" \/ (dpc = "returned" /\ cmd = "dataset")) =>
        /\ fs[cur].is_dir
        /\ "metadata.json" \in fs[cur].names
        /\ json_load(fs[cur].metadata_json) = metadata
        /\ metadata \in MetaDocs
        /\ ("DSC_Curve.csv" \in fs[cur].names) <=>
               (\E i \in 1..Len(files) : files[i].filename = "DSC_Curve.csv")

C4_Witness ==
    /\ dpc = "returned"
    /\ cmd = "dataset"
    /\ status = "ok"
    /\ fs[cur].names = {"metadata.json", "DSC_Curve.csv"}
    /\ Len(files) = 2
    /\ files[1].filename = "dsc_curve.csv"

\* C5: a `spaces download` that follows a `spaces download` of the same
\* space which returned, and is given the same listing, calls
\* download_dataset for nothing and issues no call but the listing.
C5_SecondSpaceDownloadDownloadsNothing ==
    (cmd = "space" /\ rerun) =>
        /\ to_download = <<>>
        /\ dpc \in {"space_loop", "returned"}
        /\ net = << <<"datasets", dl_space>> >>

C5_Witness ==
    /\ cmd = "space"
    /\ rerun
    /\ dpc = "returned"
    /\ datasets = <<"d2", "d1">>

\* C8: between commands, every dataset directory that exists (and is
\* therefore skipped by `spaces download`) holds metadata.json.
C8_ExistingDirectoryIsComplete ==
    Terminated =>
        \A d \in DatasetIds : is_dir(d) => "metadata.json" \in fs[d].names

\* C9: download_dataset entered for an id whose directory exists ends in
\* FileExistsError, issues no network call and leaves the working directory
\* as it was.
C9_ExistingDirectoryFailsWithoutEffect ==
    [][(dpc = "mkdir" /\ is_dir(cur)) =>
          /\ dpc' = "fatal"
          /\ status' = "FileExistsError"
          /\ fs' = fs
          /\ net' = net]_vars

C9_Witness ==
    /\ cmd = "dataset"
    /\ dpc = "fatal"
    /\ status = "FileExistsError"
    /\ net = <<>>
    /\ fs[cur].names = {"metadata.json", "DSC_Curve.csv"}

\* C10: within `spaces download`, download_dataset is entered only for ids
\* whose directory does not exist at that moment, so that the command never
\* ends in FileExistsError.
C10_SpaceDownloadsOnlyMissingDirectories ==
    cmd = "space" =>
        /\ dpc = "mkdir" => ~is_dir(cur)
        /\ status # "FileExistsError"

====
